---- MODULE Spec2Model ----
(***************************************************************************)
(* A model of ndmig (src/src/main.rs): discovery of the Ballsdex postgres  *)
(* containers, selection of one instance by the operator, and the export   *)
(* of a pg_dump of its database into <temp>/ndmig/.                        *)
(*                                                                         *)
(* Strings are sequences of one-character strings, byte buffers are        *)
(* sequences of integers 0..255.  A Rust Option is the record None or      *)
(* Some(v).  The Docker daemon, the operator and the filesystem are the    *)
(* environment: every answer they can give is drawn with \E in the action  *)
(* that asks for it.                                                       *)
(***************************************************************************)
EXTENDS Integers, Sequences, FiniteSets, TLC

\* ------------------------------------------------------------------ bounds
\* Longest container list the daemon returns.
MaxContainers == 2
\* Most chunks an exec output stream yields before it ends or fails.
MaxChunks == 3

\* ---------------------------------------------------------------- options
None == [tag |-> "None"]
Some(v) == [tag |-> "Some", val |-> v]

\* ---------------------------------------------------------------- strings
\* "postgres-db-1", the suffix main() tests a display name for.
DbSuffix == <<"p","o","s","t","g","r","e","s","-","d","b","-","1">>
\* "-postgres-db-1", the suffix export_setup() appends to the operator input.
SelectSuffix == <<"-","p","o","s","t","g","r","e","s","-","d","b","-","1">>
\* "-ndmig.sql", the file-name suffix of export()'s format!.
DumpSuffix == <<"-","n","d","m","i","g",".","s","q","l">>
\* "-export.sql", the file-name suffix the specification's examples use.
ExportSuffix == <<"-","e","x","p","o","r","t",".","s","q","l">>
\* The image string is_ballsdex_instance compares with.
ExpectedImage == "postgres"
\* std::env::temp_dir() and the fixed subdirectory joined to it.
TempDir == "tmp"
ToolDir == "ndmig"
\* Exit codes: process::exit(1), a Rust panic (expect), a normal return.
ExitFailure == 1
ExitPanic == 101
ExitSuccess == 0

\* str::ends_with
EndsWith(s, suf) ==
    /\ Len(s) >= Len(suf)
    /\ SubSeq(s, Len(s) - Len(suf) + 1, Len(s)) = suf

\* str::trim_start_matches(c): removes every leading occurrence of c.
RECURSIVE TrimStartMatchesAll(_, _)
TrimStartMatchesAll(s, c) ==
    IF s # <<>> /\ Head(s) = c THEN TrimStartMatchesAll(Tail(s), c) ELSE s

\* A strip that removes one leading occurrence only.
TrimStartMatchesOnce(s, c) ==
    IF s # <<>> /\ Head(s) = c THEN Tail(s) ELSE s

TrimStartMatches(s, c) == TrimStartMatchesAll(s, c)

WhiteSpace == {" ", "\n", "\t", "\r"}

RECURSIVE TrimStart(_)
TrimStart(s) ==
    IF s # <<>> /\ Head(s) \in WhiteSpace THEN TrimStart(Tail(s)) ELSE s

RECURSIVE TrimEnd(_)
TrimEnd(s) ==
    IF s # <<>> /\ s[Len(s)] \in WhiteSpace
    THEN TrimEnd(SubSeq(s, 1, Len(s) - 1))
    ELSE s

\* str::trim
Trim(s) == TrimEnd(TrimStart(s))

\* format_name: name.split("-").next(), the text before the first "-".
RECURSIVE format_name(_)
format_name(name) ==
    IF name = <<>> \/ Head(name) = "-"
    THEN <<>>
    ELSE <<Head(name)>> \o format_name(Tail(name))

\* ------------------------------------------------- String::from_utf8_lossy
\* U+FFFD REPLACEMENT CHARACTER as UTF-8.
Replacement == <<239, 191, 189>>

IsCont(b) == b >= 128 /\ b <= 191

\* The range the second byte of a sequence led by b must lie in.
SecondOk(b, c) ==
    IF b = 224 THEN c >= 160 /\ c <= 191
    ELSE IF b = 237 THEN c >= 128 /\ c <= 159
    ELSE IF b = 240 THEN c >= 144 /\ c <= 191
    ELSE IF b = 244 THEN c >= 128 /\ c <= 143
    ELSE IsCont(c)

\* Width of the sequence a lead byte announces; 0 for a byte that can lead none.
Width(b) ==
    IF b < 128 THEN 1
    ELSE IF b >= 194 /\ b <= 223 THEN 2
    ELSE IF b >= 224 /\ b <= 239 THEN 3
    ELSE IF b >= 240 /\ b <= 244 THEN 4
    ELSE 0

\* Length of the longest valid prefix of the sequence starting at bytes[1]:
\* Width when the sequence is complete and valid, else the length of the maximal
\* invalid part, which one U+FFFD replaces.
ValidLen(bytes) ==
    LET w == Width(bytes[1]) IN
    IF w <= 1 THEN 1
    ELSE IF Len(bytes) < 2 \/ ~SecondOk(bytes[1], bytes[2]) THEN 1
    ELSE IF w = 2 THEN 2
    ELSE IF Len(bytes) < 3 \/ ~IsCont(bytes[3]) THEN 2
    ELSE IF w = 3 THEN 3
    ELSE IF Len(bytes) < 4 \/ ~IsCont(bytes[4]) THEN 3
    ELSE 4

\* Whether the bytes at the head form one complete, valid scalar value.
HeadValid(bytes) ==
    /\ Width(bytes[1]) >= 1
    /\ ValidLen(bytes) = Width(bytes[1])

RECURSIVE from_utf8_lossy(_)
from_utf8_lossy(bytes) ==
    IF bytes = <<>> THEN <<>>
    ELSE LET n == ValidLen(bytes) IN
         (IF HeadValid(bytes) THEN SubSeq(bytes, 1, n) ELSE Replacement)
            \o from_utf8_lossy(SubSeq(bytes, n + 1, Len(bytes)))

\* Concatenation of a sequence of sequences.
RECURSIVE Concat(_)
Concat(ss) == IF ss = <<>> THEN <<>> ELSE Head(ss) \o Concat(Tail(ss))

\* ------------------------------------------------------------- environment
\* Container identities the daemon hands out.
Cid1 == <<"c","1">>
Cid2 == <<"c","2">>
Ids == {Cid1, Cid2}

\* Display names: "/a-postgres-db-1", "//a-postgres-db-1", "postgres-db-1"
\* and "/a-bot-1".
NameA == <<"/","a">> \o SelectSuffix
NameA2 == <<"/","/","a">> \o SelectSuffix
NameP == DbSuffix
NameBot == <<"/","a","-","b","o","t","-","1">>

\* ContainerSummary.names: Option<Vec<String>>.
NameOptions ==
    {None, Some(<<NameA>>), Some(<<NameA2>>), Some(<<NameP>>), Some(<<NameBot, NameA>>)}

\* ContainerSummary as list_containers returns it: id and names are Options.
Descriptors == [id : {None} \cup {Some(i) : i \in Ids}, names : NameOptions]

ContainerLists == UNION {[1..n -> Descriptors] : n \in 0..MaxContainers}

\* Image references a container can report.
Images == {"postgres", "postgres:15"}

\* inspect_container's answer: an error, or the fields the program reads:
\* config.image (None when config or image is absent) and state.running (None
\* when state or running is absent).
InspectErr == [tag |-> "Err"]
InspectOk(image, running) == [tag |-> "Ok", image |-> image, running |-> running]
InspectResponses ==
    {InspectErr} \cup
    {InspectOk(i, r) : i \in {None} \cup {Some(x) : x \in Images},
                       r \in {None, Some(TRUE), Some(FALSE)}}

\* Lines the operator can type at "Operation: ": "1", " 2", "x", an empty line.
OpInputs == {<<"1","\n">>, <<" ","2","\n">>, <<"x","\n">>, <<"\n">>}
\* Lines the operator can type at "Select instance: ": "a", " a ", "b", "",
\* "postgres-db-1" and "/a".
InstanceInputs ==
    {<<"a","\n">>, <<" ","a"," ","\n">>, <<"b","\n">>, <<"\n">>, DbSuffix, <<"/","a","\n">>}

\* Message payloads of the exec stream: "a", "e-acute" (C3 A9), its lead byte
\* alone, its continuation byte alone, and a byte that is never valid.
StdOutMessages == {<<97>>, <<195, 169>>, <<195>>, <<169>>, <<255>>}
StdErrMessages == {<<97>>, <<255>>}
Chunks ==
    {[kind |-> "StdOut", message |-> m] : m \in StdOutMessages} \cup
    {[kind |-> "StdErr", message |-> m] : m \in StdErrMessages} \cup
    {[kind |-> "Console", message |-> <<97>>]}

\* A dump left by an earlier run ("old").
OldDump == <<111, 108, 100>>

\* ------------------------------------------------------------------- state
VARIABLES
    pc,            \* where the process is
    exitCode,      \* None while running, Some(code) once the process ended
    all,           \* the container list main() iterates over
    idx,           \* position of the for loop in all
    inspected,     \* per visited container: what its inspection answered
    instances,     \* the registry: display name -> container id
    instance,      \* export_setup's resolved key
    container_id,  \* export's container id
    dump_path,     \* export's dump_path
    info,          \* None, or Some(state.running) of create_database_dump's info
    started,       \* None, or Some(variant) of the StartExecResults start_exec returned
    output,        \* create_database_dump's output buffer
    arrived,       \* the chunks the stream has yielded so far, in order
    calls,         \* the requests create_database_dump sent to the daemon
    diag,          \* what was printed as "pg_dump stderr:" lines
    printed,       \* the status messages printed
    dirExists,     \* whether <temp>/ndmig exists
    files,         \* the files under <temp>/ndmig: path -> content
    fsLog          \* the filesystem operations performed

vars == <<pc, exitCode, all, idx, inspected, instances, instance, container_id,
          dump_path, info, started, output, arrived, calls, diag, printed,
          dirExists, files, fsLog>>

discoveryVars == <<all, idx, inspected, instances>>
exportVars == <<instance, container_id, dump_path, info, started, output, arrived,
                calls, diag>>
fsVars == <<dirExists, files, fsLog>>

EmptyMap == [k \in {} |-> <<>>]

\* An insert that keeps the value of a key that is already present.
InsertIfAbsent(m, k, v) == [x \in DOMAIN m \cup {k} |-> IF x \in DOMAIN m THEN m[x] ELSE v]

\* HashMap::insert
Insert(m, k, v) == [x \in DOMAIN m \cup {k} |-> IF x = k THEN v ELSE m[x]]

\* A dump path that leaves the container id out of the file name.
DumpPathWithoutId(id) == <<TempDir, ToolDir, DumpSuffix>>

\* temp_dir.join(format!("{}-ndmig.sql", container_id))
DumpPath(id) == <<TempDir, ToolDir, id \o DumpSuffix>>

Message(m, a) == [msg |-> m, arg |-> a]

\* The process ends with the given code after printing the given messages.
Exit(code, msgs) ==
    /\ pc' = "done"
    /\ exitCode' = Some(code)
    /\ printed' = printed \o msgs

Init ==
    /\ pc = "connect"
    /\ exitCode = None
    /\ all = <<>>
    /\ idx = 1
    /\ inspected = <<>>
    /\ instances = EmptyMap
    /\ instance = None
    /\ container_id = None
    /\ dump_path = None
    /\ info = None
    /\ started = None
    /\ output = <<>>
    /\ arrived = <<>>
    /\ calls = <<>>
    /\ diag = <<>>
    /\ printed = <<>>
    /\ fsLog = <<>>
    /\ \/ dirExists = FALSE /\ files = EmptyMap
       \/ dirExists = TRUE /\ files = [p \in {DumpPath(Cid1)} |-> OldDump]

\* ------------------------------------------------------------------- main()
\* A matcher that takes a failed inspection for a match.
is_ballsdex_instance_err_matches(r) ==
    IF r.tag = "Err" THEN TRUE
    ELSE IF r.image = None THEN FALSE
    ELSE r.image.val = ExpectedImage

\* A matcher that accepts every tag of the image.
is_ballsdex_instance_any_tag(r) ==
    IF r.tag = "Err" THEN FALSE
    ELSE IF r.image = None THEN FALSE
    ELSE r.image.val \in Images

\* is_ballsdex_instance on the inspection's answer: an error is "no match",
\* a missing config or image is "no match", else exact equality of the image.
is_ballsdex_instance(r) ==
    IF r.tag = "Err" THEN FALSE
    ELSE IF r.image = None THEN FALSE
    ELSE r.image.val = ExpectedImage

\* main()'s project_name: the first name with the leading "/" stripped, or the
\* id when the container has no name.
project_name(container, id) ==
    IF container.names = None \/ container.names.val = <<>>
    THEN id
    ELSE TrimStartMatches(Head(container.names.val), "/")

\* The suffix test that admits a display name to the registry.
IsDatabaseName(name) == EndsWith(name, DbSuffix)

\* What the loop records of an inspection: the image it reported, "Err" when
\* the inspection failed, "NoId" when the container was skipped unvisited.
ImageSeen(r) == IF r.tag = "Err" THEN [tag |-> "Err"] ELSE r.image
NoId == [tag |-> "NoId"]

\* The registry after one iteration of the for loop over container c whose
\* inspection answered r.
ScanInsert(m, c, r) ==
    IF /\ is_ballsdex_instance(r)
       /\ IsDatabaseName(project_name(c, c.id.val))
    THEN Insert(m, project_name(c, c.id.val), c.id.val)
    ELSE m

\* clearscreen::clear().expect(..), then Docker::connect_with_local_defaults().
Connect ==
    /\ pc = "connect"
    /\ \E cleared \in BOOLEAN, connected \in BOOLEAN :
         IF ~cleared
         THEN Exit(ExitPanic, <<Message("panic: Failed to clear screen", <<>>)>>)
         ELSE IF ~connected
         THEN Exit(ExitFailure, <<Message("Failed to connect to Docker", <<>>)>>)
         ELSE /\ pc' = "list"
              /\ UNCHANGED <<exitCode, printed>>
    /\ UNCHANGED <<discoveryVars, exportVars, fsVars>>

\* docker.list_containers(all: true).await.expect(..)
ListContainers ==
    /\ pc = "list"
    /\ \/ /\ Exit(ExitPanic, <<Message("panic: Failed to list containers", <<>>)>>)
          /\ UNCHANGED all
       \/ /\ \E l \in ContainerLists : all' = l
          /\ pc' = "scan"
          /\ UNCHANGED <<exitCode, printed>>
    /\ UNCHANGED <<idx, inspected, instances, exportVars, fsVars>>

\* One iteration of `for container in all`.
ScanStep ==
    /\ pc = "scan"
    /\ idx <= Len(all)
    /\ LET c == all[idx] IN
       IF c.id = None
       THEN /\ inspected' = Append(inspected, NoId)
            /\ UNCHANGED instances
       ELSE \E r \in InspectResponses :
              /\ inspected' = Append(inspected, ImageSeen(r))
              /\ instances' = ScanInsert(instances, c, r)
    /\ idx' = idx + 1
    /\ UNCHANGED <<pc, exitCode, printed, all, exportVars, fsVars>>

\* prompt(): the loop is over (its list is consumed), the menu is printed and
\* the operation is read.
Prompt ==
    /\ pc = "scan"
    /\ idx > Len(all)
    /\ all' = <<>>
    /\ inspected' = <<>>
    /\ idx' = 1
    /\ \/ Exit(ExitPanic, <<Message("welcome", <<>>),
                            Message("panic: Failed to read input", <<>>)>>)
       \/ \E line \in OpInputs :
            IF Trim(line) = <<"1">>
            THEN /\ pc' = "export_setup"
                 /\ printed' = Append(printed, Message("welcome", <<>>))
                 /\ UNCHANGED exitCode
            ELSE IF Trim(line) = <<"2">>
            THEN Exit(ExitSuccess, <<Message("welcome", <<>>), Message("TBA", <<>>)>>)
            ELSE Exit(ExitFailure, <<Message("welcome", <<>>),
                                     Message("Invalid operation", <<>>)>>)
    /\ UNCHANGED <<instances, exportVars, fsVars>>

\* ----------------------------------------------------------- export_setup()
\* The key export_setup looks up: the trimmed line plus "-postgres-db-1".
ResolveKey(line) == Trim(line) \o SelectSuffix

\* A lookup that falls back to some registered instance when the key is unknown.
LookupOrDefault(m, key) ==
    IF key \in DOMAIN m THEN Some(m[key])
    ELSE IF DOMAIN m # {} THEN Some(m[CHOOSE k \in DOMAIN m : TRUE])
    ELSE None

\* A lookup that skips the contains_key test and hands an unknown key on as if
\* it were a container id.
LookupUnchecked(m, key) == Some(IF key \in DOMAIN m THEN m[key] ELSE key)

\* A lookup that returns the container of another registered key when there
\* is one.
LookupOther(m, key) ==
    IF key \notin DOMAIN m THEN None
    ELSE IF DOMAIN m = {key} THEN Some(m[key])
    ELSE Some(m[CHOOSE k \in DOMAIN m : k # key])

\* instances.contains_key(&instance) and instances[&instance]: the container id
\* of a known key, None for an unknown one.
Lookup(m, key) == IF key \in DOMAIN m THEN Some(m[key]) ELSE None

\* export_setup(): print the menu, read a line, resolve it, exit(1) when the
\* key is unknown, else return (instance, container_id).
ExportSetup ==
    /\ pc = "export_setup"
    /\ \/ /\ Exit(ExitPanic, <<Message("menu", <<>>),
                               Message("panic: Failed to read input", <<>>)>>)
          /\ UNCHANGED <<instance, container_id>>
       \/ \E line \in InstanceInputs :
            LET key == ResolveKey(line) IN
            /\ instance' = Some(key)
            /\ IF Lookup(instances, key) = None
               THEN /\ \/ Exit(ExitPanic, <<Message("menu", <<>>),
                                  Message("panic: Failed to clear screen", <<>>)>>)
                       \/ Exit(ExitFailure, <<Message("menu", <<>>),
                                  Message("Instance not found", key)>>)
                    /\ UNCHANGED container_id
               ELSE /\ container_id' = Lookup(instances, key)
                    /\ pc' = "mkdir"
                    /\ printed' = Append(printed, Message("menu", <<>>))
                    /\ UNCHANGED exitCode
    /\ UNCHANGED <<discoveryVars, dump_path, info, started, output, arrived, calls,
                   diag, fsVars>>

\* ------------------------------------------------------------------ export()
FsOp(op, path) == [op |-> op, path |-> path]

\* export() up to the call of create_database_dump: create_dir_all(temp/ndmig),
\* compute dump_path, print "Exporting...".
CreateDir ==
    /\ pc = "mkdir"
    /\ \/ /\ Exit(ExitPanic,
                  <<Message("panic: Failed to create ndmig temp directory", <<>>)>>)
          /\ UNCHANGED <<dump_path, fsVars>>
       \/ /\ dirExists' = TRUE
          /\ fsLog' = IF dirExists THEN fsLog
                      ELSE Append(fsLog, FsOp("mkdir", <<TempDir, ToolDir>>))
          /\ dump_path' = Some(DumpPath(container_id.val))
          /\ pc' = "inspect"
          /\ printed' = Append(printed, Message("Exporting", <<>>))
          /\ UNCHANGED <<exitCode, files>>
    /\ UNCHANGED <<discoveryVars, instance, container_id, info, started, output,
                   arrived, calls, diag>>

\* An Err arm that prints the failure and returns instead of exiting.
ExportFailedReturns(call) ==
    /\ Exit(ExitSuccess, <<Message("Export failed", <<>>)>>)
    /\ calls' = calls \o call
    /\ output' = <<>>

\* The Err arm of export()'s match: print "Export failed" and exit(1).  The
\* locals of create_database_dump are dropped with its frame.
ExportFailed(call) ==
    /\ Exit(ExitFailure, <<Message("Export failed", <<>>)>>)
    /\ calls' = calls \o call
    /\ output' = <<>>

\* A request sent to the daemon and whether it succeeded.
Call(op, id, ok) == [op |-> op, id |-> id, ok |-> ok]

\* ---------------------------------------------------- create_database_dump()
\* An is_running test with the reported flag negated.
IsRunningNegated(running) == IF running = None THEN FALSE ELSE ~running.val

\* info.state.and_then(|s| s.running).unwrap_or(false)
IsRunning(running) == IF running = None THEN FALSE ELSE running.val

\* docker.inspect_container(container_id).await? and the is_running test.
DumpInspect ==
    /\ pc = "inspect"
    /\ \E r \in InspectResponses :
         IF r.tag = "Err"
         THEN /\ ExportFailed(<<Call("inspect", container_id.val, FALSE)>>)
              /\ UNCHANGED info
         ELSE /\ info' = Some(r.running)
              /\ calls' = Append(calls, Call("inspect", container_id.val, TRUE))
              /\ pc' = IF IsRunning(r.running) THEN "create_exec" ELSE "start_container"
              /\ UNCHANGED <<exitCode, printed, output>>
    /\ UNCHANGED <<discoveryVars, instance, container_id, dump_path, started, arrived,
                   diag, fsVars>>

\* A start step that goes on to create_exec whether or not the start succeeded.
DumpStartUnchecked ==
    /\ pc = "start_container"
    /\ \E ok \in BOOLEAN : calls' = Append(calls, Call("start", container_id.val, ok))
    /\ pc' = "create_exec"
    /\ UNCHANGED <<exitCode, printed, output>>
    /\ UNCHANGED <<discoveryVars, instance, container_id, dump_path, info,
                   started, arrived, diag, fsVars>>

\* docker.start_container(container_id).await?
DumpStart ==
    /\ pc = "start_container"
    /\ \/ ExportFailed(<<Call("start", container_id.val, FALSE)>>)
       \/ /\ calls' = Append(calls, Call("start", container_id.val, TRUE))
          /\ pc' = "create_exec"
          /\ UNCHANGED <<exitCode, printed, output>>
    /\ UNCHANGED <<discoveryVars, instance, container_id, dump_path, info,
                   started, arrived, diag, fsVars>>

\* docker.create_exec(container_id, pg_dump -U ballsdex).await?
DumpCreateExec ==
    /\ pc = "create_exec"
    /\ \/ ExportFailed(<<Call("create_exec", container_id.val, FALSE)>>)
       \/ /\ calls' = Append(calls, Call("create_exec", container_id.val, TRUE))
          /\ pc' = "start_exec"
          /\ UNCHANGED <<exitCode, printed, output>>
    /\ UNCHANGED <<discoveryVars, instance, container_id, dump_path, info,
                   started, arrived, diag, fsVars>>

\* docker.start_exec(&exec.id).await?: an error, an attached stream, or a
\* detached execution, for which the if-let is skipped and Ok(output) returned.
DumpStartExec ==
    /\ pc = "start_exec"
    /\ \/ /\ ExportFailed(<<Call("start_exec", container_id.val, FALSE)>>)
          /\ UNCHANGED started
       \/ /\ calls' = Append(calls, Call("start_exec", container_id.val, TRUE))
          /\ \E variant \in {"Attached", "Detached"} :
               /\ started' = Some(variant)
               /\ pc' = IF variant = "Attached" THEN "stream" ELSE "write"
          /\ UNCHANGED <<exitCode, printed, output>>
    /\ UNCHANGED <<discoveryVars, instance, container_id, dump_path, info,
                   arrived, diag, fsVars>>

\* The stdout arm: output.push_str(&String::from_utf8_lossy(&message)).
PushStdOut(out, message) == out \o from_utf8_lossy(message)

\* A match that pushes the standard-error payloads into the buffer as well.
NextOutputUnfiltered(out, chunk) ==
    IF chunk.kind \in {"StdOut", "StdErr"} THEN PushStdOut(out, chunk.message) ELSE out

\* The output buffer after one chunk of the stream is matched.
NextOutput(out, chunk) ==
    IF chunk.kind = "StdOut" THEN PushStdOut(out, chunk.message) ELSE out

\* The "pg_dump stderr:" lines after one chunk of the stream is matched.
NextDiag(d, chunk) ==
    IF chunk.kind = "StdErr" THEN Append(d, from_utf8_lossy(chunk.message)) ELSE d

\* One turn of `while let Some(chunk) = stream.next().await`: the stream ends,
\* fails (chunk? returns the error) or yields a chunk that is matched.
StreamNext ==
    /\ pc = "stream"
    /\ \/ /\ pc' = "write"
          /\ UNCHANGED <<exitCode, printed, output, arrived, diag, calls>>
       \/ /\ ExportFailed(<<>>)
          /\ UNCHANGED <<arrived, diag>>
       \/ /\ Len(arrived) < MaxChunks
          /\ \E chunk \in Chunks :
               /\ arrived' = Append(arrived, chunk)
               /\ output' = NextOutput(output, chunk)
               /\ diag' = NextDiag(diag, chunk)
          /\ UNCHANGED <<pc, exitCode, printed, calls>>
    /\ UNCHANGED <<discoveryVars, instance, container_id, dump_path, info, started,
                   fsVars>>

\* A write step that ignores the result of std::fs::write and reports success.
ExportWriteIgnoringError ==
    /\ pc = "write"
    /\ \/ /\ files' = Insert(files, dump_path.val, output)
          /\ fsLog' = Append(fsLog, FsOp("write", dump_path.val))
       \/ /\ \/ UNCHANGED files
             \/ \E n \in 0..(Len(output) - 1) :
                  files' = Insert(files, dump_path.val, SubSeq(output, 1, n))
          /\ fsLog' = Append(fsLog, FsOp("write failed", dump_path.val))
    /\ Exit(ExitSuccess,
            <<Message("successfully exported", format_name(instance.val))>>)
    /\ UNCHANGED <<discoveryVars, exportVars, dirExists>>

\* The Ok arm of export()'s match: std::fs::write(&dump_path, sql).expect(..),
\* the success message, and the return through prompt() and main().  A failed
\* write leaves the file untouched or holding a strict prefix of sql.
ExportWrite ==
    /\ pc = "write"
    /\ \/ /\ files' = Insert(files, dump_path.val, output)
          /\ fsLog' = Append(fsLog, FsOp("write", dump_path.val))
          /\ Exit(ExitSuccess,
                  <<Message("successfully exported", format_name(instance.val))>>)
       \/ /\ \/ UNCHANGED files
             \/ \E n \in 0..(Len(output) - 1) :
                  files' = Insert(files, dump_path.val, SubSeq(output, 1, n))
          /\ fsLog' = Append(fsLog, FsOp("write failed", dump_path.val))
          /\ Exit(ExitPanic, <<Message("panic: Failed to create database dump", <<>>)>>)
    /\ UNCHANGED <<discoveryVars, exportVars, dirExists>>

Next ==
    \/ Connect
    \/ ListContainers
    \/ ScanStep
    \/ Prompt
    \/ ExportSetup
    \/ CreateDir
    \/ DumpInspect
    \/ DumpStart
    \/ DumpCreateExec
    \/ DumpStartExec
    \/ StreamNext
    \/ ExportWrite

Spec == Init /\ [][Next]_vars

\* ------------------------------------------------------------------ claims
\* Number of requests of one kind sent by create_database_dump.
NumCalls(op) == Cardinality({i \in DOMAIN calls : calls[i].op = op})

\* The inspection of the database container reported state.running = b.
Reported(b) == info = Some(Some(b))

\* create_database_dump has got past its start step, or the process ended in it.
PastStart == pc \in {"create_exec", "start_exec", "stream", "write", "done"}

\* C1: when the inspection reports the database container as not running,
\* exactly one start request is issued, and every exec-create request comes
\* after that start request has completed successfully; when the inspection
\* reports it as running, no start request is issued at all.
C1_StartBeforeExecCreate ==
    /\ Reported(FALSE) =>
         /\ PastStart => NumCalls("start") = 1
         /\ ~PastStart => NumCalls("start") = 0
         /\ \A j \in DOMAIN calls :
              calls[j].op = "create_exec" =>
                \E i \in 1..(j - 1) : calls[i].op = "start" /\ calls[i].ok
    /\ Reported(TRUE) => NumCalls("start") = 0

\* C1 witness: a stopped container was started and the exec request created,
\* and the export ran to its end.
C1_Witness ==
    /\ Reported(FALSE)
    /\ NumCalls("start") = 1
    /\ NumCalls("create_exec") = 1
    /\ pc = "done"
    /\ exitCode = Some(ExitSuccess)

\* The operator's resolved key is not a key of the registry.
UnknownSelection == instance # None /\ instance.val \notin DOMAIN instances

\* C2: when the resolved key is not in the registry, the run has sent no
\* request to the daemon (no inspect, start, exec-create or exec-start for the
\* export), has touched no file or directory, has chosen no container, and has
\* ended with a non-zero exit code.
C2_UnknownSelectionStops ==
    UnknownSelection =>
        /\ pc = "done"
        /\ exitCode \in {Some(ExitFailure), Some(ExitPanic)}
        /\ calls = <<>>
        /\ fsLog = <<>>
        /\ container_id = None
        /\ dump_path = None
        /\ \A i \in DOMAIN printed : printed[i].msg # "Exporting"

\* C2 witness: a non-empty registry, and an input that resolves to none of its
\* keys.
C2_Witness ==
    /\ UnknownSelection
    /\ DOMAIN instances # {}
    /\ pc = "done"

\* The payloads of the chunks of one kind, in arrival order.
RECURSIVE MessagesOf(_, _)
MessagesOf(chunks, kind) ==
    IF chunks = <<>> THEN <<>>
    ELSE (IF Head(chunks).kind = kind THEN <<Head(chunks).message>> ELSE <<>>)
            \o MessagesOf(Tail(chunks), kind)

\* The bytes the command wrote to its standard output, in arrival order.
StdOutBytes == Concat(MessagesOf(arrived, "StdOut"))

\* Decoding bytes that are valid UTF-8 changes nothing.
IsValidUtf8(bytes) == from_utf8_lossy(bytes) = bytes

\* The stream was drained to its end without an error.
Drained == pc = "write" /\ started = Some("Attached")

\* C3: when the stream has drained without error, the result of
\* create_database_dump equals, byte for byte, the concatenation of the
\* standard-output chunks in arrival order, however the other chunks are
\* interleaved.  Stated for the sessions whose standard output is valid UTF-8
\* as a whole, where permissive decoding has nothing to replace.
C3_ByteForByteConcatenation ==
    (Drained /\ IsValidUtf8(StdOutBytes)) => output = StdOutBytes

\* The process ended because a read of the exec output stream failed: the
\* execution had been started, and the export failed after it.
StreamFailed ==
    /\ pc = "done"
    /\ \E i \in DOMAIN calls : calls[i].op = "start_exec" /\ calls[i].ok
    /\ printed # <<>>
    /\ printed[Len(printed)].msg = "Export failed"

\* C4: when a read of the exec output stream fails, the export ends as an
\* export failure: the accumulated output is dropped, the process exits
\* non-zero, and nothing has been written to disk, neither a file nor a
\* directory.
C4_StreamErrorWritesNothing ==
    StreamFailed =>
        /\ exitCode = Some(ExitFailure)
        /\ output = <<>>
        /\ fsLog = <<>>

\* The for loop of main() has visited the whole list.
ScanDone == pc = "scan" /\ idx > Len(all)

\* The display name main() resolves for the i-th container of the list.
KeyOf(i) == project_name(all[i], IF all[i].id = None THEN <<>> ELSE all[i].id.val)

\* The i-th container has an identity, its inspection reported exactly the
\* expected image, and its display name ends with "postgres-db-1".
Passes(i) ==
    /\ all[i].id # None
    /\ inspected[i] = Some(ExpectedImage)
    /\ EndsWith(KeyOf(i), DbSuffix)

\* The registry maps the i-th container's display name to its identity.
InRegistry(i) ==
    /\ all[i].id # None
    /\ KeyOf(i) \in DOMAIN instances
    /\ instances[KeyOf(i)] = all[i].id.val

\* What the runtime guarantees of a list: no two containers share a name.
UniqueNames ==
    \A i, j \in 1..Len(all) : i # j => KeyOf(i) # KeyOf(j)

\* C5: once the scan is over, a container of a list the runtime returns (no
\* two containers share a display name) is in the registry if and only if its
\* image equals the expected signature and its display name ends with the
\* database-role suffix; and, for every list, every key of the registry is the
\* display name of a container that passed both tests and maps to its identity.
C5_RegistryIsIntersection ==
    ScanDone =>
        /\ UniqueNames => \A i \in 1..Len(all) : InRegistry(i) <=> Passes(i)
        /\ \A k \in DOMAIN instances :
             \E i \in 1..Len(all) :
                Passes(i) /\ KeyOf(i) = k /\ all[i].id.val = instances[k]

\* C5 witness: of two containers that both report the expected image, the one
\* named for the database is in the registry and the other one is not.
C5_Witness ==
    /\ ScanDone
    /\ Len(all) = 2
    /\ UniqueNames
    /\ inspected[1] = Some(ExpectedImage)
    /\ inspected[2] = Some(ExpectedImage)
    /\ InRegistry(1)
    /\ ~InRegistry(2)

\* The process has ended.
Finished == pc = "done"

\* The last status message printed.
LastMessage == IF printed = <<>> THEN "" ELSE printed[Len(printed)].msg

\* The export ran to its end: the dump file was written and success reported.
Exported ==
    /\ Finished
    /\ fsLog # <<>>
    /\ fsLog[Len(fsLog)].op = "write"
    /\ LastMessage = "successfully exported"

\* The messages of the failures the exit-code contract lists: no connection to
\* the runtime, no container list, an unknown instance, a failed export, and a
\* failure to create the directory or to write the dump file.
FailureMessages ==
    {"Failed to connect to Docker",
     "panic: Failed to list containers",
     "Instance not found",
     "Export failed",
     "panic: Failed to create ndmig temp directory",
     "panic: Failed to create database dump"}

C7_DumpAtExportSqlPath ==
    Exported =>
        LET path == <<TempDir, ToolDir, container_id.val \o ExportSuffix>> IN
        /\ path \in DOMAIN files
        /\ files[path] = output

\* C7 as amended: after a successful export of container c the dump is the
\* file <temp>/ndmig/<c>-ndmig.sql, a function of c only; the directory
\* exists, the file holds the accumulated output whatever it held before, and
\* no other file has changed.
C7_DumpAtNdmigSqlPath ==
    Exported =>
        LET path == <<TempDir, ToolDir, container_id.val \o DumpSuffix>> IN
        /\ container_id = Some(instances[instance.val])
        /\ dump_path = Some(path)
        /\ fsLog[Len(fsLog)].path = path
        /\ dirExists
        /\ path \in DOMAIN files
        /\ files[path] = output
        /\ \A p \in DOMAIN files \ {path} : files[p] = OldDump

\* C7 witness: the dump of container c1 replaced the dump an earlier run had
\* left at the same path, in a directory that already existed.
C7_Witness ==
    /\ Exported
    /\ container_id = Some(Cid1)
    /\ Len(fsLog) = 1
    /\ output # <<>>
    /\ output # OldDump
    /\ files[<<TempDir, ToolDir, Cid1 \o DumpSuffix>>] = output

\* The start request for the stopped container failed.
StartFailed == \E i \in DOMAIN calls : calls[i].op = "start" /\ ~calls[i].ok

\* C8: when the start request fails, the export fails: exactly one start
\* request was sent, no exec-create or exec-start request follows it, no chunk
\* is read, no dump file is written, and the process has exited non-zero.
C8_StartFailureStops ==
    StartFailed =>
        /\ Finished
        /\ exitCode = Some(ExitFailure)
        /\ LastMessage = "Export failed"
        /\ NumCalls("start") = 1
        /\ NumCalls("create_exec") = 0
        /\ NumCalls("start_exec") = 0
        /\ calls[Len(calls)].op = "start"
        /\ arrived = <<>>
        /\ \A i \in DOMAIN fsLog : fsLog[i].op = "mkdir"

\* C8 witness: the inspection reported the container as stopped and its start
\* failed.
C8_Witness ==
    /\ StartFailed
    /\ Reported(FALSE)
    /\ Finished

\* The inspection of the i-th container failed.
InspectionFailed(i) == inspected[i] = [tag |-> "Err"]

\* C9: during discovery a failed inspection is absorbed.  The process keeps
\* running and the loop has advanced past every container inspected so far;
\* a container whose inspection failed contributes no entry to the registry
\* (an entry with its name and identity stems from another container that
\* passed); and every container after it that passes is in the registry under
\* its name, so the scan went on to the end of the list.
C9_InspectionFailureAbsorbed ==
    pc = "scan" =>
        /\ exitCode = None
        /\ idx = Len(inspected) + 1
        /\ idx <= Len(all) + 1
        /\ ScanDone => Len(inspected) = Len(all)
        /\ \A i \in 1..Len(inspected) :
             InspectionFailed(i) =>
                /\ InRegistry(i) =>
                     \E j \in 1..Len(inspected) :
                        /\ j # i
                        /\ Passes(j)
                        /\ KeyOf(j) = KeyOf(i)
                        /\ all[j].id = all[i].id
                /\ \A j \in (i + 1)..Len(inspected) :
                     Passes(j) => KeyOf(j) \in DOMAIN instances

\* C9 witness: the first container's inspection failed, the scan went on, and
\* the second container, which passed, is in the registry while the first,
\* although named for the database, is not.
C9_Witness ==
    /\ ScanDone
    /\ Len(all) = 2
    /\ InspectionFailed(1)
    /\ EndsWith(KeyOf(1), DbSuffix)
    /\ ~InRegistry(1)
    /\ Passes(2)
    /\ InRegistry(2)

\* Each payload decoded as the program decodes it.
RECURSIVE LossyEach(_)
LossyEach(msgs) ==
    IF msgs = <<>> THEN <<>>
    ELSE <<from_utf8_lossy(Head(msgs))>> \o LossyEach(Tail(msgs))

\* C10: at every moment of an exec session, also while the stream is still
\* open, the diagnostic lines printed so far are exactly the standard-error
\* chunks that have arrived so far, in arrival order, and the buffer holds
\* exactly the decoded standard-output chunks that have arrived so far, in
\* arrival order: each chunk is dealt with when it arrives, before any later
\* chunk and before the stream ends, and no standard-error chunk enters the
\* buffer.
C10_ChunksHandledOnArrival ==
    /\ diag = LossyEach(MessagesOf(arrived, "StdErr"))
    /\ (pc \in {"stream", "write"} \/ Exported) =>
          output = Concat(LossyEach(MessagesOf(arrived, "StdOut")))
    /\ pc \notin {"stream", "write", "done"} =>
          arrived = <<>> /\ output = <<>> /\ diag = <<>>

\* C10 witness: the stream is still open, a standard-error chunk has arrived
\* and is already printed, and a standard-output chunk that arrived after it
\* is in the buffer.
C10_Witness ==
    /\ pc = "stream"
    /\ Len(arrived) = 2
    /\ arrived[1].kind = "StdErr"
    /\ arrived[2].kind = "StdOut"
    /\ diag = <<from_utf8_lossy(arrived[1].message)>>
    /\ output = from_utf8_lossy(arrived[2].message)

\* prompt() has printed its menu and read (or failed to read) the operation.
Prompted == \E i \in DOMAIN printed : printed[i].msg = "welcome"

\* The operator chose the export operation: export_setup() printed its menu.
ChoseExport == \E i \in DOMAIN printed : printed[i].msg = "menu"

\* C11 as stated: when the registry is empty, every run that got as far as the
\* operator's input ends with exit code 1 and with no file written.
C11_EmptyRegistryExitsOne ==
    (Prompted /\ Finished /\ instances = EmptyMap) =>
        /\ exitCode = Some(ExitFailure)
        /\ fsLog = <<>>

\* C11: when the registry is empty and the operator chooses the export, every
\* instance input is "not found": the run ends there with a non-zero exit code
\* (1 with the "Instance not found" message, the panic code when reading the
\* input or clearing the screen fails), no container is chosen and no request
\* is sent; and no run with an empty registry writes a file or a directory.
C11_EmptyRegistryNotFound ==
    instances = EmptyMap =>
        /\ fsLog = <<>>
        /\ calls = <<>>
        /\ container_id = None
        /\ instance # None => UnknownSelection
        /\ ChoseExport =>
             /\ Finished
             /\ exitCode \in {Some(ExitFailure), Some(ExitPanic)}
             /\ exitCode = Some(ExitFailure) <=> LastMessage = "Instance not found"
             /\ LastMessage = "Instance not found" => instance # None

\* C11 witness: with an empty registry an instance name was entered, reported
\* as not found, and the process exited with 1.
C11_Witness ==
    /\ instances = EmptyMap
    /\ instance # None
    /\ LastMessage = "Instance not found"
    /\ exitCode = Some(ExitFailure)

\* std::fs::write failed in this run.
WriteFailed == \E i \in DOMAIN fsLog : fsLog[i].op = "write failed"

\* create_dir_all failed in this run.
MkdirFailed ==
    \E i \in DOMAIN printed :
        printed[i].msg = "panic: Failed to create ndmig temp directory"

\* The attempts to write a dump file, failed ones included.
WriteAttempts ==
    {i \in DOMAIN fsLog : fsLog[i].op \in {"write", "write failed"}}

\* C12: when creating the directory or writing the dump file fails, the
\* process has stopped with a non-zero exit code and the failure is the last
\* thing it reported: no success message was printed, the write was not
\* attempted again, and the failed step is the last thing the run did (after
\* a failed directory creation no request was sent and nothing was written;
\* after a failed write the last request is the exec-start that preceded it).
C12_WriteFailureIsFatal ==
    /\ MkdirFailed =>
         /\ Finished
         /\ exitCode = Some(ExitPanic)
         /\ LastMessage = "panic: Failed to create ndmig temp directory"
         /\ calls = <<>>
         /\ WriteAttempts = {}
         /\ dump_path = None
    /\ WriteFailed =>
         /\ Finished
         /\ exitCode = Some(ExitPanic)
         /\ LastMessage = "panic: Failed to create database dump"
         /\ Cardinality(WriteAttempts) = 1
         /\ fsLog[Len(fsLog)].op = "write failed"
         /\ calls # <<>>
         /\ calls[Len(calls)].op = "start_exec"
         /\ \A i \in DOMAIN calls : calls[i].ok
    /\ (MkdirFailed \/ WriteFailed) =>
         \A i \in DOMAIN printed : printed[i].msg # "successfully exported"

\* C12 witness: the write of a non-empty dump failed part-way, and the process
\* ended with the panic code.
C12_Witness ==
    /\ WriteFailed
    /\ output # <<>>
    /\ dump_path.val \in DOMAIN files
    /\ files[dump_path.val] # output
    /\ exitCode = Some(ExitPanic)

\* The i-th container of the list carries a display name.
HasName(i) == all[i].names # None /\ all[i].names.val # <<>>

\* A name that does not begin with the separator "/".
NoLeadingSeparator(s) == s = <<>> \/ Head(s) # "/"

\* C13: for every display name of the container list, the name main() obtains
\* by stripping the leading "/" does not begin with "/", and stripping it again
\* returns the same name; so no key of the registry begins with "/".
C13_StripIdempotent ==
    /\ \A i \in DOMAIN all :
         HasName(i) =>
           /\ NoLeadingSeparator(KeyOf(i))
           /\ TrimStartMatches(KeyOf(i), "/") = KeyOf(i)
    /\ \A k \in DOMAIN instances : NoLeadingSeparator(k)

\* C13 witness: a container whose display name begins with two separators has
\* been scanned and is registered under the name without them.
C13_Witness ==
    /\ ScanDone
    /\ \E i \in DOMAIN all :
         /\ HasName(i)
         /\ SubSeq(Head(all[i].names.val), 1, 2) = <<"/", "/">>
         /\ KeyOf(i) \in DOMAIN instances
         /\ KeyOf(i) = SubSeq(Head(all[i].names.val), 3, Len(Head(all[i].names.val)))

\* C14: a start request is issued only when the inspection of the database
\* container reported it as not running; an inspection that carries no run
\* state leads to no start request.
C14_StartOnlyWhenConfirmedStopped ==
    NumCalls("start") > 0 => Reported(FALSE)

\* The success message of export() has been printed.
SuccessReported ==
    \E i \in DOMAIN printed : printed[i].msg = "successfully exported"

\* C15: the dump file is written at most once per run, and only after the
\* exec output stream was attached and drained to its end without error; the
\* success message is printed only once that write has completed, and the
\* write is the last step of the run, so that no request follows it.
C15_WrittenOnceAfterDrain ==
    /\ Cardinality(WriteAttempts) <= 1
    /\ WriteAttempts # {} =>
         /\ started = Some("Attached")
         /\ ~StreamFailed
         /\ \A i \in DOMAIN calls : calls[i].ok
         /\ calls[Len(calls)].op = "start_exec"
         /\ Finished
    /\ SuccessReported =>
         /\ fsLog # <<>>
         /\ fsLog[Len(fsLog)].op = "write"
         /\ LastMessage = "successfully exported"

\* start_exec returned without an attached output stream.
StartedDetached == started = Some("Detached")

\* C18: a dump file is written and success is reported only when start_exec
\* returned an attached output stream; when the execution started without
\* one, no dump file is written and no success is reported.
C18_DumpOnlyFromAttachedStream ==
    /\ (WriteAttempts # {} \/ SuccessReported) => started = Some("Attached")
    /\ StartedDetached => exitCode # Some(ExitSuccess)

\* The containers the loop has visited so far that passed both tests and
\* resolve to the display name k.
PassedAs(k) == {i \in 1..(idx - 1) : Passes(i) /\ KeyOf(i) = k}

\* The largest element of a non-empty set of list positions.
Last(S) == CHOOSE i \in S : \A j \in S : j <= i

\* C16: while main() scans the list, every display name that one or more
\* matching containers resolve to has one entry in the registry, and its
\* identity is that of the last of them in list order; a name no matching
\* container resolves to has none.
C16_LastSeenWins ==
    pc = "scan" =>
        /\ \A i \in 1..(idx - 1) :
             Passes(i) =>
               /\ KeyOf(i) \in DOMAIN instances
               /\ instances[KeyOf(i)] = all[Last(PassedAs(KeyOf(i)))].id.val
        /\ \A k \in DOMAIN instances : PassedAs(k) # {}

\* C16 witness: two matching containers with different identities resolved to
\* the same display name, and the registry holds the identity of the second.
C16_Witness ==
    /\ ScanDone
    /\ Len(all) = 2
    /\ Passes(1)
    /\ Passes(2)
    /\ KeyOf(1) = KeyOf(2)
    /\ all[1].id # all[2].id
    /\ DOMAIN instances = {KeyOf(1)}
    /\ instances[KeyOf(2)] = all[2].id.val

\* Some operator input resolves to the key k.  An input line resolves to k
\* exactly when its trimmed text p satisfies p \o "-postgres-db-1" = k; such a
\* p is a prefix of k and is itself an input that resolves to k, so the
\* prefixes of k are all the inputs that need to be tried.
Selectable(k) ==
    \E n \in 0..Len(k) :
        LET line == SubSeq(k, 1, n) IN
        /\ ResolveKey(line) = k
        /\ Lookup(instances, ResolveKey(line)) = Some(instances[k])

\* C17: every key of the registry main() builds is selectable: some operator
\* input makes export_setup() resolve to that key and return it with the
\* container identity the registry maps it to.
C17_EveryKeySelectable ==
    \A k \in DOMAIN instances : Selectable(k)

\* The requests that change a container or run a command in it.
ChangingOps == {"start", "create_exec", "start_exec"}

\* The requests create_database_dump can send.
DumpOps == {"inspect"} \cup ChangingOps

\* C19: every request the export sends is an inspect, start, exec-create or
\* exec-start (never a stop or a remove) addressed to the container the
\* registry maps from the selected key, so that no other container receives a
\* start, exec-create or exec-start; and a run issues at most one start and at
\* most one exec-create.
C19_OnlySelectedContainerTouched ==
    /\ \A i \in DOMAIN calls :
         /\ calls[i].op \in DumpOps
         /\ instance # None
         /\ instance.val \in DOMAIN instances
         /\ calls[i].id = instances[instance.val]
         /\ container_id = Some(calls[i].id)
    /\ NumCalls("start") <= 1
    /\ NumCalls("create_exec") <= 1
    /\ NumCalls("start_exec") <= 1

\* C19 witness: with two containers registered under different names, the
\* export started the selected one and ran the command in it, and the run
\* ended.
C19_Witness ==
    /\ Finished
    /\ Cardinality(DOMAIN instances) = 2
    /\ instance # None
    /\ instance.val \in DOMAIN instances
    /\ \E k \in DOMAIN instances : instances[k] # instances[instance.val]
    /\ NumCalls("start") = 1
    /\ NumCalls("create_exec") = 1
    /\ NumCalls("start_exec") = 1
    /\ \A i \in DOMAIN calls : calls[i].id = instances[instance.val]

====
